---- MODULE Spec2Model ----
(***************************************************************************)
(* A model of functions/api/manage/delete/[id].js: the handler that        *)
(* deletes one hosted asset.  It resolves the identifier of the request to *)
(* a key of the metadata store (the KV namespace img_url), classifies the  *)
(* record as object-store (R2) or messaging (Telegram) backed, removes the *)
(* payload and removes the metadata key.                                   *)
(*                                                                         *)
(* Strings are sequences of tokens.  Every known prefix ("img:", "vid:",   *)
(* "aud:", "doc:", "r2:") is one token and every other token is one        *)
(* character that occurs in no prefix, so that startsWith(prefix) is a     *)
(* test of the first token, `${prefix}${fileId}` is concatenation and      *)
(* slice(3) of a string that starts with "r2:" drops its first token.      *)
(*                                                                         *)
(* One action is one awaited call of the handler together with the         *)
(* synchronous code that follows it up to the next await.  Each request    *)
(* keeps a trace of the calls it has issued on its collaborators, in the   *)
(* order it issued them.                                                   *)
(*                                                                         *)
(* The collaborators are the platform's, not the repository's.  They fail  *)
(* the way their contracts say: a lookup or a delete on the metadata store *)
(* answers; a delete on the object store answers or rejects; the outbound  *)
(* deleteMessage call throws, or returns any status with any body.         *)
(***************************************************************************)
EXTENDS Naturals, Sequences, FiniteSets

\* ------------------------------------------------------------------ bounds

\* Longest asset name (the part of a key after its prefix), in characters.
MaxBaseLen == 1

\* Most entries the metadata store holds when the request arrives.  The
\* attributes of an entry are fixed at upload; the model fixes them when the
\* entry is first read (kvMetadata), which no request can tell apart.
MaxRecords == 2

\* Requests the model has slots for; a slot is "off" unless Init starts it.
Reqs == {1, 2}

\* ----------------------------------------------------------------- strings

\* A bug: the object-store prefix is probed first.
prefixesR2First == << <<"r2:">>, <<"img:">>, <<"vid:">>, <<"aud:">>, <<"doc:">>, <<>> >>

\* getRecordWithKey: const prefixes = ['img:', 'vid:', 'aud:', 'doc:', 'r2:', '']
prefixes == << <<"img:">>, <<"vid:">>, <<"aud:">>, <<"doc:">>, <<"r2:">>, <<>> >>

BaseChars == {"a"}

RECURSIVE SeqsUpTo(_, _)
SeqsUpTo(S, n) ==
    IF n = 0 THEN {<<>>}
    ELSE LET shorter == SeqsUpTo(S, n - 1)
         IN  shorter \cup {<<c>> \o s : c \in S, s \in {t \in shorter : Len(t) = n - 1}}

Bases == SeqsUpTo(BaseChars, MaxBaseLen)

\* The identifiers and the keys of the model: a name, bare or under one prefix.
Names == {prefixes[i] \o b : i \in 1..Len(prefixes), b \in Bases}

\* String.prototype.startsWith for a non-empty prefix token.
StartsWith(s, prefix) == Len(s) > 0 /\ s[1] = prefix

\* s.slice(3) of a string s that starts with the three characters "r2:".
Slice3(s) == Tail(s)

\* Characters of the raw path parameter: "%61" is the escape of "a"; "%" is
\* an escape cut short, which decodeURIComponent rejects with a URIError.
RawChars == BaseChars \cup {"%61", "%"}

\* The raw path parameters: every name as it is, and two bare names written
\* with an escape.
Params == Names \cup {<<c>> : c \in RawChars}

DecodeChar(c) == IF c = "%61" THEN "a" ELSE c

Malformed(s) == \E i \in 1..Len(s) : s[i] = "%"

\* decodeURIComponent on a string it accepts.
DecodeURIComponent(s) == [i \in 1..Len(s) |-> DecodeChar(s[i])]

\* A bug: the parameter is used as it arrives, escapes and all.
DecodedFileIdNeverDecodes(raw) == raw

\* onRequest, lines 3-9: the decoded parameter, or the raw one when decoding throws.
DecodedFileId(raw) == IF Malformed(raw) THEN raw ELSE DecodeURIComponent(raw)

\* ------------------------------------------------------------ collaborators

None == <<>>
Some(v) == <<v>>

\* The attributes of a Metadata Record.  An unset field is falsy: "" for a
\* string, the empty string for r2Key, 0 for telegramMessageId.
Metas ==
    [storageType : {"r2", "telegram", ""},
     storage : {"r2", ""},
     r2Key : {<<>>, <<"k">>},
     telegramMessageId : {0, 101}]

NoMetadata == [storageType |-> "", storage |-> "", r2Key |-> <<>>, telegramMessageId |-> 0]

\* What the metadata store holds under a key: nothing, a value without
\* metadata, or a value with metadata (a record).
EntryKinds == {"absent", "value", "record"}

\* The keys one asset name can be stored under.
KeysOf(b) == {prefixes[i] \o b : i \in 1..Len(prefixes)}

\* The keys of the metadata store: those of every name, and those of the
\* names that are one raw character (a key may hold "%" as it is).
StoreKeys == Names \cup UNION {KeysOf(<<c>>) : c \in RawChars}

EmptyStore == [k \in StoreKeys |-> "absent"]

\* The stores of at most n entries, all of them entries of asset name b (one
\* asset uploaded under several key conventions).
RECURSIVE StoresUpTo(_, _)
StoresUpTo(b, n) ==
    IF n = 0 THEN {EmptyStore}
    ELSE LET fewer == StoresUpTo(b, n - 1)
         IN  fewer \cup {[s EXCEPT ![k] = e] :
                             s \in fewer, k \in KeysOf(b), e \in EntryKinds \ {"absent"}}

Stores == UNION {StoresUpTo(b, MaxRecords) : b \in Bases}

\* Every physical key a request of the model can name.
Objects == StoreKeys \cup Params \cup {<<"k">>}

MessageIds == {101}

\* What one outbound deleteMessage call can come to: fetch throws, or it
\* returns a response with its ok flag and a body.
Bodies == {"ok:true", "ok:false", "{}", "null", "unparsable"}

FetchOutcomes ==
    {[threw |-> TRUE, ok |-> FALSE, body |-> "unparsable"]}
        \cup [threw : {FALSE}, ok : BOOLEAN, body : Bodies]

\* The remote service has removed the message: it answered 2xx with ok:true.
RemoteSucceeded(o) == ~o.threw /\ o.ok /\ o.body = "ok:true"

\* -------------------------------------------------------------------- state

VARIABLES
    img_url,        \* env.img_url: [bound, entries]
    kvMetadata,     \* the metadata of the records read so far, by key
    R2_BUCKET,      \* env.R2_BUCKET: [bound, objects]
    TG_Bot_Token,   \* env.TG_Bot_Token is set; None until a request reads it
    TG_Chat_ID,     \* env.TG_Chat_ID is set; None until a request reads it
    chat,           \* the message ids the remote chat still holds
    pc,             \* where each request stands
    param,          \* params.id
    fileId,
    candidateKeys,  \* getRecordWithKey: the keys to probe
    probed,         \* getRecordWithKey: how many of them have been probed
    record,         \* [found, metadata]
    kvKey,
    r2Key,
    telegramDeleted,
    telegramDeleteAttempted,
    telegramDeleteError,
    response,       \* the responses the request has returned
    escaped,        \* an exception left onRequest
    outcome,        \* what the request's outbound call came to
    initial,        \* the stores as the request found them
    trace           \* the calls issued on the collaborators, in order

envVars == <<img_url, kvMetadata, R2_BUCKET, TG_Bot_Token, TG_Chat_ID, chat>>

reqVars ==
    <<pc, param, fileId, candidateKeys, probed, record, kvKey, r2Key, telegramDeleted,
      telegramDeleteAttempted, telegramDeleteError, response, escaped, outcome, initial,
      trace>>

vars == <<envVars, reqVars>>

NoOutcome == [threw |-> FALSE, ok |-> FALSE, body |-> "none"]

NullRecord == [found |-> FALSE, metadata |-> NoMetadata]

Event(op, key, ok) == [op |-> op, key |-> key, ok |-> ok]

Log(r, e) == trace' = [trace EXCEPT ![r] = Append(@, e)]

\* The state shared by Init of every specification; started is the set of
\* requests that run, each with its own path parameter.
InitEnv ==
    /\ \/ img_url = [bound |-> FALSE, entries |-> EmptyStore]
       \/ \E s \in Stores : img_url = [bound |-> TRUE, entries |-> s]
    /\ kvMetadata = [k \in {} |-> NoMetadata]
    /\ R2_BUCKET \in {[bound |-> FALSE, objects |-> {}], [bound |-> TRUE, objects |-> Objects]}
    /\ TG_Bot_Token = None
    /\ TG_Chat_ID = None
    /\ chat = MessageIds

InitReqs(started) ==
    /\ pc = [r \in Reqs |-> IF r \in started THEN "start" ELSE "off"]
    /\ fileId = [r \in Reqs |-> <<>>]
    /\ candidateKeys = [r \in Reqs |-> <<>>]
    /\ probed = [r \in Reqs |-> 0]
    /\ record = [r \in Reqs |-> NullRecord]
    /\ kvKey = [r \in Reqs |-> <<>>]
    /\ r2Key = [r \in Reqs |-> <<>>]
    /\ telegramDeleted = [r \in Reqs |-> "false"]
    /\ telegramDeleteAttempted = [r \in Reqs |-> FALSE]
    /\ telegramDeleteError = [r \in Reqs |-> ""]
    /\ response = [r \in Reqs |-> <<>>]
    /\ escaped = [r \in Reqs |-> FALSE]
    /\ outcome = [r \in Reqs |-> NoOutcome]
    /\ initial = [entries |-> img_url.entries, objects |-> R2_BUCKET.objects, chat |-> chat]
    /\ trace = [r \in Reqs |-> <<>>]

Init ==
    /\ InitEnv
    /\ InitReqs({1})
    /\ \E p \in Params : param = [r \in Reqs |-> p]

\* ---------------------------------------------------------------- responses

\* A response body; JSON.stringify leaves out a field that is undefined.
EmptyBody ==
    [status |-> 200, success |-> FALSE, error |-> None, message |-> None, fileId |-> None,
     r2Key |-> None, kvKey |-> None, telegramDeleteAttempted |-> None,
     telegramDeleted |-> None, warning |-> None, telegramDeleteError |-> None]

\* jsonResponse(body, status = 200)
jsonResponse(body, status) == [body EXCEPT !.status = status]

Respond(r, resp) ==
    /\ response' = [response EXCEPT ![r] = Append(@, resp)]
    /\ pc' = [pc EXCEPT ![r] = "done"]

\* A bug: the outer catch rethrows instead of answering.
CatchRethrows(r, message) ==
    /\ escaped' = [escaped EXCEPT ![r] = TRUE]
    /\ pc' = [pc EXCEPT ![r] = "done"]
    /\ UNCHANGED response

\* onRequest, lines 99-108: the catch of the outer try.
Catch(r, message) ==
    /\ Respond(r, jsonResponse([EmptyBody EXCEPT !.success = FALSE, !.error = Some(message)], 500))
    /\ UNCHANGED escaped

\* ---------------------------------------------------------- the metadata store

\* env.img_url.getWithMetadata(key): the kind of entry under key.
Lookup(key) == IF key \in StoreKeys THEN img_url.entries[key] ELSE "absent"

\* env.img_url.delete(key)
KvDelete(key) ==
    img_url' = IF key \in StoreKeys
               THEN [img_url EXCEPT !.entries[key] = "absent"]
               ELSE img_url

\* ------------------------------------------------------------------ onRequest

\* getRecordWithKey, lines 112-114.
hasKnownPrefix(id) ==
    \E i \in 1..Len(prefixes) : prefixes[i] # <<>> /\ StartsWith(id, prefixes[i][1])

\* A bug: an identifier with a known prefix is also looked up without it.
CandidateKeysWithStrippedFallback(id) ==
    IF hasKnownPrefix(id) THEN <<id, Tail(id)>> ELSE [i \in 1..Len(prefixes) |-> prefixes[i] \o id]

CandidateKeys(id) ==
    IF hasKnownPrefix(id) THEN <<id>> ELSE [i \in 1..Len(prefixes) |-> prefixes[i] \o id]

\* onRequest, lines 1-18: decode the parameter, require the KV binding, and
\* enter getRecordWithKey.
Begin(r) ==
    /\ pc[r] = "start"
    /\ fileId' = [fileId EXCEPT ![r] = DecodedFileId(param[r])]
    /\ IF ~img_url.bound
       THEN /\ Catch(r, "KV binding img_url is not configured.")
            /\ UNCHANGED candidateKeys
       ELSE /\ candidateKeys' = [candidateKeys EXCEPT ![r] = CandidateKeys(fileId'[r])]
            /\ pc' = [pc EXCEPT ![r] = "probe"]
            /\ UNCHANGED <<response, escaped>>
    /\ UNCHANGED <<initial, outcome, envVars, param, probed, record, kvKey, r2Key, telegramDeleted,
                   telegramDeleteAttempted, telegramDeleteError, trace>>

\* A bug: an entry that has a value and no metadata counts as found.
HitWithoutMetadata(kind) == kind # "absent"

\* getRecordWithKey, line 118 (and onRequest, line 19): record && record.metadata
Hit(kind) == kind = "record"

\* getRecordWithKey, lines 116-123: one turn of the loop, and the return
\* after the last candidate.
Probe(r) ==
    /\ pc[r] = "probe"
    /\ LET key == candidateKeys[r][probed[r] + 1]
           hit == Hit(Lookup(key))
       IN  /\ Log(r, Event("kv.get", key, hit))
           /\ probed' = [probed EXCEPT ![r] = @ + 1]
           /\ IF hit
              THEN /\ \E m \in Metas :
                        /\ key \in DOMAIN kvMetadata => m = kvMetadata[key]
                        /\ kvMetadata' = [k \in DOMAIN kvMetadata \cup {key} |->
                                             IF k = key THEN m ELSE kvMetadata[k]]
                        /\ record' = [record EXCEPT ![r] = [found |-> TRUE, metadata |-> m]]
                   /\ kvKey' = [kvKey EXCEPT ![r] = key]
                   /\ pc' = [pc EXCEPT ![r] = "resolved"]
              ELSE /\ UNCHANGED <<kvMetadata, record>>
                   /\ IF probed'[r] = Len(candidateKeys[r])
                      THEN /\ kvKey' = [kvKey EXCEPT ![r] = fileId[r]]
                           /\ pc' = [pc EXCEPT ![r] = "resolved"]
                      ELSE UNCHANGED <<kvKey, pc>>
    /\ UNCHANGED <<initial, outcome, img_url, R2_BUCKET, TG_Bot_Token, TG_Chat_ID, chat, param, fileId,
                   candidateKeys, r2Key, telegramDeleted, telegramDeleteAttempted,
                   telegramDeleteError, response, escaped>>

\* onRequest, lines 19-27.
NotFound(r) ==
    /\ pc[r] = "resolved"
    /\ ~record[r].found
    /\ Respond(r, jsonResponse([EmptyBody EXCEPT !.success = FALSE,
                                                 !.error = Some("File metadata not found.")], 404))
    /\ UNCHANGED <<initial, outcome, envVars, param, fileId, candidateKeys, probed, record, kvKey, r2Key,
                   telegramDeleted, telegramDeleteAttempted, telegramDeleteError, escaped, trace>>

\* A bug: the legacy storage field is not consulted.
isR2WithoutLegacyField(id, metadata) ==
    StartsWith(id, "r2:") \/ metadata.storageType = "r2"

\* onRequest, line 30.
isR2(id, metadata) ==
    StartsWith(id, "r2:") \/ metadata.storageType = "r2" \/ metadata.storage = "r2"

\* onRequest, lines 29-32: the branch on isR2.
Classify(r) ==
    /\ pc[r] = "resolved"
    /\ record[r].found
    /\ pc' = [pc EXCEPT ![r] = IF isR2(fileId[r], record[r].metadata) THEN "r2" ELSE "telegram"]
    /\ UNCHANGED <<initial, outcome, envVars, param, fileId, candidateKeys, probed, record, kvKey, r2Key,
                   telegramDeleted, telegramDeleteAttempted, telegramDeleteError,
                   response, escaped, trace>>

\* a || b on strings: the first that is not empty.
OrElse(a, b) == IF a # <<>> THEN a ELSE b

\* A bug: the Storage Key is used as the physical key, prefix and all.
ResolveR2KeyUnstripped(metadata, key, id) == OrElse(metadata.r2Key, OrElse(key, id))

\* onRequest, lines 33-35.
ResolveR2Key(metadata, key, id) ==
    OrElse(metadata.r2Key,
           OrElse(IF StartsWith(key, "r2:") THEN Slice3(key) ELSE <<>>,
                  IF StartsWith(id, "r2:") THEN Slice3(id) ELSE id))

\* A bug: the two preconditions of lines 37-42 are not checked.
R2PrepareUnchecked(r) ==
    /\ pc[r] = "r2"
    /\ r2Key' = [r2Key EXCEPT ![r] = ResolveR2Key(record[r].metadata, kvKey[r], fileId[r])]
    /\ pc' = [pc EXCEPT ![r] = "r2Delete"]
    /\ UNCHANGED <<initial, outcome, envVars, param, fileId, candidateKeys, probed, record,
                   kvKey, telegramDeleted, telegramDeleteAttempted, telegramDeleteError,
                   response, escaped, trace>>

\* onRequest, lines 33-42.
R2Prepare(r) ==
    /\ pc[r] = "r2"
    /\ r2Key' = [r2Key EXCEPT ![r] = ResolveR2Key(record[r].metadata, kvKey[r], fileId[r])]
    /\ IF ~R2_BUCKET.bound
       THEN Catch(r, "R2 bucket is not configured.")
       ELSE IF r2Key'[r] = <<>>
       THEN Catch(r, "Failed to resolve R2 key.")
       ELSE /\ pc' = [pc EXCEPT ![r] = "r2Delete"]
            /\ UNCHANGED <<response, escaped>>
    /\ UNCHANGED <<initial, outcome, envVars, param, fileId, candidateKeys, probed, record, kvKey,
                   telegramDeleted, telegramDeleteAttempted, telegramDeleteError, trace>>

\* A bug: the rejection of the object-store delete is swallowed and the
\* request goes on to delete the metadata key.
R2DeleteSwallowsFailure(r) ==
    /\ pc[r] = "r2Delete"
    /\ \E ok \in BOOLEAN :
        /\ Log(r, Event("r2.delete", r2Key[r], ok))
        /\ R2_BUCKET' = IF ok THEN [R2_BUCKET EXCEPT !.objects = @ \ {r2Key[r]}] ELSE R2_BUCKET
    /\ pc' = [pc EXCEPT ![r] = "r2KvDelete"]
    /\ UNCHANGED <<initial, outcome, img_url, kvMetadata, TG_Bot_Token, TG_Chat_ID, chat, param,
                   fileId, candidateKeys, probed, record, kvKey, r2Key, telegramDeleted,
                   telegramDeleteAttempted, telegramDeleteError, response, escaped>>

\* onRequest, line 44: await env.R2_BUCKET.delete(r2Key), which removes the
\* object or rejects.
R2Delete(r) ==
    /\ pc[r] = "r2Delete"
    /\ \E ok \in BOOLEAN :
        /\ Log(r, Event("r2.delete", r2Key[r], ok))
        /\ IF ok
           THEN /\ R2_BUCKET' = [R2_BUCKET EXCEPT !.objects = @ \ {r2Key[r]}]
                /\ pc' = [pc EXCEPT ![r] = "r2KvDelete"]
                /\ UNCHANGED <<response, escaped>>
           ELSE /\ Catch(r, "R2 delete failed.")
                /\ UNCHANGED R2_BUCKET
    /\ UNCHANGED <<initial, outcome, img_url, kvMetadata, TG_Bot_Token, TG_Chat_ID, chat, param, fileId,
                   candidateKeys, probed, record, kvKey, r2Key, telegramDeleted,
                   telegramDeleteAttempted, telegramDeleteError>>

\* onRequest, lines 45-54.
R2KvDelete(r) ==
    /\ pc[r] = "r2KvDelete"
    /\ KvDelete(kvKey[r])
    /\ Log(r, Event("kv.delete", kvKey[r], TRUE))
    /\ Respond(r, jsonResponse([EmptyBody EXCEPT !.success = TRUE,
                                                 !.message = Some("Deleted from R2 and KV."),
                                                 !.fileId = Some(fileId[r]),
                                                 !.r2Key = Some(r2Key[r]),
                                                 !.kvKey = Some(kvKey[r])], 200))
    /\ UNCHANGED <<initial, outcome, kvMetadata, R2_BUCKET, TG_Bot_Token, TG_Chat_ID, chat, param, fileId,
                   candidateKeys, probed, record, kvKey, r2Key, telegramDeleted,
                   telegramDeleteAttempted, telegramDeleteError, escaped>>

\* The two credentials are fixed at deployment; the model fixes them when
\* a request first comes to the messaging path, which no request can tell
\* apart.
ReadCredentials ==
    /\ TG_Bot_Token' \in IF TG_Bot_Token = None THEN {Some(TRUE), Some(FALSE)} ELSE {TG_Bot_Token}
    /\ TG_Chat_ID' \in IF TG_Chat_ID = None THEN {Some(TRUE), Some(FALSE)} ELSE {TG_Chat_ID}

\* A bug: the guard does not look at the chat id.
MissingCredentialsIgnoresChat(messageId) == messageId = 0 \/ TG_Bot_Token' # Some(TRUE)

\* deleteTelegramMessage, lines 127-129: the guard that returns false
\* before any outbound call, on the credentials as the request reads them.
MissingCredentials(messageId) ==
    messageId = 0 \/ TG_Bot_Token' # Some(TRUE) \/ TG_Chat_ID' # Some(TRUE)

\* A bug: the remote deletion is attempted whether or not the record has a
\* message reference.
TelegramTryAlways(r) ==
    /\ pc[r] = "telegram"
    /\ ReadCredentials
    /\ telegramDeleteAttempted' = [telegramDeleteAttempted EXCEPT ![r] = TRUE]
    /\ pc' = [pc EXCEPT ![r] = "fetch"]
    /\ UNCHANGED <<initial, outcome, img_url, kvMetadata, R2_BUCKET, chat, param, fileId, candidateKeys, probed, record,
                   kvKey, r2Key, telegramDeleted, telegramDeleteError, response, escaped, trace>>

\* onRequest, lines 64-75, and deleteTelegramMessage up to its fetch.
TelegramTry(r) ==
    /\ pc[r] = "telegram"
    /\ ReadCredentials
    /\ LET messageId == record[r].metadata.telegramMessageId
       IN  IF messageId # 0
           THEN /\ telegramDeleteAttempted' = [telegramDeleteAttempted EXCEPT ![r] = TRUE]
                /\ IF MissingCredentials(messageId)
                   THEN /\ telegramDeleted' = [telegramDeleted EXCEPT ![r] = "false"]
                        /\ pc' = [pc EXCEPT ![r] = "finally"]
                   ELSE /\ pc' = [pc EXCEPT ![r] = "fetch"]
                        /\ UNCHANGED telegramDeleted
           ELSE /\ pc' = [pc EXCEPT ![r] = "finally"]
                /\ UNCHANGED <<telegramDeleteAttempted, telegramDeleted>>
    /\ UNCHANGED <<initial, outcome, img_url, kvMetadata, R2_BUCKET, chat, param, fileId,
                   candidateKeys, probed, record, kvKey, r2Key, telegramDeleteError,
                   response, escaped, trace>>

\* A bug: the outbound call is issued and not awaited.
FetchNotAwaited(r) ==
    /\ pc[r] = "fetch"
    /\ Log(r, Event("tg.fetch", <<>>, TRUE))
    /\ pc' = [pc EXCEPT ![r] = "finally"]
    /\ UNCHANGED <<initial, outcome, envVars, param, fileId, candidateKeys, probed, record,
                   kvKey, r2Key, telegramDeleted, telegramDeleteAttempted,
                   telegramDeleteError, response, escaped>>

\* deleteTelegramMessage, lines 132-139: the outbound call is issued.
Fetch(r) ==
    /\ pc[r] = "fetch"
    /\ Log(r, Event("tg.fetch", <<>>, TRUE))
    /\ pc' = [pc EXCEPT ![r] = "reply"]
    /\ UNCHANGED <<initial, outcome, envVars, param, fileId, candidateKeys, probed, record, kvKey, r2Key,
                   telegramDeleted, telegramDeleteAttempted, telegramDeleteError,
                   response, escaped>>

\* deleteTelegramMessage, lines 141-148: data.ok of the parsed body.  A body
\* that does not parse leaves data = { ok: false }.
DataOk(body) ==
    CASE body = "ok:true" -> "true"
      [] body = "ok:false" -> "false"
      [] body = "unparsable" -> "false"
      [] OTHER -> "undefined"

\* A bug: the HTTP status alone decides; the ok field of the body is not read.
deleteTelegramMessageTrustsStatus(o) ==
    IF o.threw
    THEN [threw |-> FALSE, value |-> "false", message |-> ""]
    ELSE [threw |-> FALSE, value |-> IF o.ok THEN "true" ELSE "false", message |-> ""]

\* deleteTelegramMessage, lines 131-152, from the outcome of fetch to what the
\* function does: [threw, value, message].  A fetch that throws, and the
\* TypeError of data.ok on a body that parses to null, are caught at line 149.
deleteTelegramMessage(o) ==
    IF o.threw \/ o.body = "null"
    THEN [threw |-> FALSE, value |-> "false", message |-> ""]
    ELSE [threw |-> FALSE,
          value |-> IF o.ok THEN DataOk(o.body) ELSE "false",
          message |-> ""]

\* The outbound call completes; onRequest, lines 68-79.
FetchReply(r) ==
    /\ pc[r] = "reply"
    /\ \E o \in FetchOutcomes :
        LET res == deleteTelegramMessage(o)
        IN  /\ outcome' = [outcome EXCEPT ![r] = o]
            /\ Log(r, Event("tg.done", <<>>, RemoteSucceeded(o)))
            /\ chat' = IF RemoteSucceeded(o)
                       THEN chat \ {record[r].metadata.telegramMessageId}
                       ELSE chat
            /\ IF res.threw
               THEN /\ telegramDeleteError' = [telegramDeleteError EXCEPT ![r] = res.message]
                    /\ UNCHANGED telegramDeleted
               ELSE /\ telegramDeleted' = [telegramDeleted EXCEPT ![r] = res.value]
                    /\ UNCHANGED telegramDeleteError
    /\ pc' = [pc EXCEPT ![r] = "finally"]
    /\ UNCHANGED <<initial, img_url, kvMetadata, R2_BUCKET, TG_Bot_Token, TG_Chat_ID, param, fileId,
                   candidateKeys, probed, record, kvKey, r2Key, telegramDeleteAttempted,
                   response, escaped>>

\* onRequest, lines 85-98: the body of the response of the messaging path.
TelegramBody(r) ==
    LET deleted == telegramDeleted[r] = "true"
    IN  [EmptyBody EXCEPT
            !.success = TRUE,
            !.message = Some(IF deleted THEN "Deleted from Telegram and KV."
                             ELSE "KV metadata deleted (Telegram deletion best-effort)."),
            !.fileId = Some(fileId[r]),
            !.kvKey = Some(kvKey[r]),
            !.telegramDeleteAttempted = Some(telegramDeleteAttempted[r]),
            !.telegramDeleted = IF telegramDeleted[r] = "undefined" THEN None
                                ELSE Some(telegramDeleted[r]),
            !.warning = Some(IF deleted THEN ""
                             ELSE "Telegram deletion failed or messageId missing, but KV metadata was forcibly deleted."),
            !.telegramDeleteError = Some(IF telegramDeleteError[r] # ""
                                         THEN telegramDeleteError[r] ELSE "null")]

\* A bug: the metadata delete sits after the try block instead of in its
\* finally, and is skipped when the remote deletion did not succeed.
KvDeleteOnlyAfterSuccess(r) ==
    /\ pc[r] = "finally"
    /\ IF telegramDeleteAttempted[r] /\ telegramDeleted[r] # "true"
       THEN UNCHANGED <<img_url, trace>>
       ELSE KvDelete(kvKey[r]) /\ Log(r, Event("kv.delete", kvKey[r], TRUE))
    /\ Respond(r, jsonResponse(TelegramBody(r), 200))
    /\ UNCHANGED <<initial, outcome, kvMetadata, R2_BUCKET, TG_Bot_Token, TG_Chat_ID, chat,
                   param, fileId, candidateKeys, probed, record, kvKey, r2Key, telegramDeleted,
                   telegramDeleteAttempted, telegramDeleteError, escaped>>

\* A bug: a remote deletion that was attempted and did not succeed fails the
\* request after the finally block.
KvDeleteFinallyEscalates(r) ==
    /\ pc[r] = "finally"
    /\ KvDelete(kvKey[r])
    /\ Log(r, Event("kv.delete", kvKey[r], TRUE))
    /\ IF telegramDeleteAttempted[r] /\ telegramDeleted[r] # "true"
       THEN Catch(r, "Telegram deletion failed.")
       ELSE Respond(r, jsonResponse(TelegramBody(r), 200)) /\ UNCHANGED escaped
    /\ UNCHANGED <<initial, outcome, kvMetadata, R2_BUCKET, TG_Bot_Token, TG_Chat_ID, chat,
                   param, fileId, candidateKeys, probed, record, kvKey, r2Key, telegramDeleted,
                   telegramDeleteAttempted, telegramDeleteError>>

\* A bug: the finally block deletes the identifier of the request instead
\* of the Storage Key the resolver returned.
KvDeleteFinallyByFileId(r) ==
    /\ pc[r] = "finally"
    /\ KvDelete(fileId[r])
    /\ Log(r, Event("kv.delete", fileId[r], TRUE))
    /\ Respond(r, jsonResponse(TelegramBody(r), 200))
    /\ UNCHANGED <<initial, outcome, kvMetadata, R2_BUCKET, TG_Bot_Token, TG_Chat_ID, chat,
                   param, fileId, candidateKeys, probed, record, kvKey, r2Key, telegramDeleted,
                   telegramDeleteAttempted, telegramDeleteError, escaped>>

\* A bug: the delete of a key that is no longer there fails the request.
KvDeleteFinallyRequiresPresent(r) ==
    /\ pc[r] = "finally"
    /\ KvDelete(kvKey[r])
    /\ Log(r, Event("kv.delete", kvKey[r], TRUE))
    /\ IF Lookup(kvKey[r]) = "absent"
       THEN Catch(r, "Key not found.")
       ELSE Respond(r, jsonResponse(TelegramBody(r), 200)) /\ UNCHANGED escaped
    /\ UNCHANGED <<initial, outcome, kvMetadata, R2_BUCKET, TG_Bot_Token, TG_Chat_ID, chat,
                   param, fileId, candidateKeys, probed, record, kvKey, r2Key, telegramDeleted,
                   telegramDeleteAttempted, telegramDeleteError>>

\* onRequest, lines 80-98: the finally block and the response.
KvDeleteFinally(r) ==
    /\ pc[r] = "finally"
    /\ KvDelete(kvKey[r])
    /\ Log(r, Event("kv.delete", kvKey[r], TRUE))
    /\ Respond(r, jsonResponse(TelegramBody(r), 200))
    /\ UNCHANGED <<initial, outcome, kvMetadata, R2_BUCKET, TG_Bot_Token, TG_Chat_ID, chat, param, fileId,
                   candidateKeys, probed, record, kvKey, r2Key, telegramDeleted,
                   telegramDeleteAttempted, telegramDeleteError, escaped>>

\* One step of request r.
Step(r) ==
    \/ Begin(r)
    \/ Probe(r)
    \/ NotFound(r)
    \/ Classify(r)
    \/ R2Prepare(r)
    \/ R2Delete(r)
    \/ R2KvDelete(r)
    \/ TelegramTry(r)
    \/ Fetch(r)
    \/ FetchReply(r)
    \/ KvDeleteFinally(r)

Next == \E r \in Reqs : Step(r)

Spec == Init /\ [][Next]_vars

\* Two requests for the same path parameter run concurrently: each runs
\* onRequest on its own locals, and the runtime interleaves them at their
\* awaits.  Both stores are bound, the metadata store holds records of asset
\* a, and the parameter is a or img:a.
InitConc ==
    /\ InitEnv
    /\ img_url.bound
    /\ img_url.entries \in StoresUpTo(<<"a">>, MaxRecords)
    /\ \A k \in StoreKeys : img_url.entries[k] # "value"
    /\ R2_BUCKET.bound
    /\ InitReqs({1, 2})
    /\ \E p \in {<<"a">>, <<"img:", "a">>} : param = [r \in Reqs |-> p]

SpecConc == InitConc /\ [][Next]_vars

\* The requests whose path parameter is a known prefix, or none, followed by
\* one raw character (an escape, an escape cut short, or a plain character),
\* on a metadata store that holds at most one record, under a key of one of
\* those characters.
DecodeParams == {prefixes[i] \o <<c>> : i \in 1..Len(prefixes), c \in RawChars}

DecodeStores ==
    {EmptyStore} \cup {[EmptyStore EXCEPT ![k] = "record"] : k \in DecodeParams}

InitDecode ==
    /\ \/ img_url = [bound |-> FALSE, entries |-> EmptyStore]
       \/ \E s \in DecodeStores : img_url = [bound |-> TRUE, entries |-> s]
    /\ kvMetadata = [k \in {} |-> NoMetadata]
    /\ R2_BUCKET \in {[bound |-> FALSE, objects |-> {}], [bound |-> TRUE, objects |-> Objects]}
    /\ TG_Bot_Token = None
    /\ TG_Chat_ID = None
    /\ chat = MessageIds
    /\ InitReqs({1})
    /\ \E p \in DecodeParams : param = [r \in Reqs |-> p]

SpecDecode == InitDecode /\ [][Next]_vars

\* ----------------------------------------------------------------- properties

\* The places in the trace of request r of the calls named op.
Events(r, op) == {i \in 1..Len(trace[r]) : trace[r][i].op = op}

Done(r) == pc[r] = "done"

\* The response of a request that has ended.
Resp(r) == response[r][1]

\* The resolver found a record, and the Backend Classifier's rule puts it on
\* the messaging backend.
Messaging(r) ==
    /\ record[r].found
    /\ ~StartsWith(fileId[r], "r2:")
    /\ record[r].metadata.storageType # "r2"
    /\ record[r].metadata.storage # "r2"

\* The resolver found a record, and the rule puts it on the object store.
ObjectStore(r) ==
    /\ record[r].found
    /\ \/ StartsWith(fileId[r], "r2:")
       \/ record[r].metadata.storageType = "r2"
       \/ record[r].metadata.storage = "r2"

\* C1: for a messaging-classified record the delete of the metadata key is
\* issued exactly once per request, on the resolved Storage Key, whatever the
\* remote step came to: never more than once while the request runs, and
\* exactly once when it has ended.
C1_MetadataDeleteExactlyOnce ==
    \A r \in Reqs :
        Messaging(r) =>
            /\ Cardinality(Events(r, "kv.delete")) <= 1
            /\ \A i \in Events(r, "kv.delete") : trace[r][i].key = kvKey[r]
            /\ Done(r) => Cardinality(Events(r, "kv.delete")) = 1

\* C1 witness: the outbound call threw, and the request ended with its one
\* delete of the metadata key.
C1_Witness ==
    \E r \in Reqs :
        /\ Done(r) /\ Messaging(r) /\ outcome[r].threw
        /\ Cardinality(Events(r, "kv.delete")) = 1
        /\ img_url.entries[kvKey[r]] = "absent"

\* C2: for an object-store-classified record every delete of the metadata
\* key comes after a successful object-store delete of the same request; a
\* request that has ended deleted the metadata key if and only if its
\* object-store delete succeeded; and after a failed object-store delete the
\* response is 500 with success=false and the record is still in the store.
C2_MetadataDeleteIffPayloadDeleted ==
    \A r \in Reqs :
        ObjectStore(r) =>
            /\ \A i \in Events(r, "kv.delete") :
                   \E j \in Events(r, "r2.delete") : j < i /\ trace[r][j].ok
            /\ Done(r) =>
                   ((\E j \in Events(r, "r2.delete") : trace[r][j].ok)
                        <=> Events(r, "kv.delete") # {})
            /\ (Done(r) /\ \E j \in Events(r, "r2.delete") : ~trace[r][j].ok) =>
                   /\ Resp(r).status = 500
                   /\ ~Resp(r).success
                   /\ Events(r, "kv.delete") = {}
                   /\ img_url.entries[kvKey[r]] = "record"

\* C2 witness: the object-store delete failed and the request ended.
C2_Witness ==
    \E r \in Reqs :
        /\ Done(r) /\ ObjectStore(r)
        /\ \E j \in Events(r, "r2.delete") : ~trace[r][j].ok
        /\ Resp(r).status = 500
        /\ img_url.entries[kvKey[r]] = "record"

\* No candidate key of the identifier of request r held a record with
\* metadata in the metadata store the request was given.
NoCandidateHolds(r) ==
    LET keys == CandidateKeys(DecodedFileId(param[r]))
    IN  /\ img_url.bound
        /\ \A i \in 1..Len(keys) :
               keys[i] \in StoreKeys => initial.entries[keys[i]] # "record"

\* The request has issued no call that changes a store.
NoMutation(r) ==
    /\ Events(r, "kv.delete") = {}
    /\ Events(r, "r2.delete") = {}
    /\ Events(r, "tg.fetch") = {}

StoresUnchanged ==
    /\ img_url.entries = initial.entries
    /\ R2_BUCKET.objects = initial.objects
    /\ chat = initial.chat

\* C3: when no candidate key of the identifier holds a record with metadata
\* the request issues no delete on either store and no deleteMessage call, the
\* three stores stay as they were, and the response is 404 with success=false.
C3_NotFoundNoMutation ==
    \A r \in Reqs :
        (pc[r] # "off" /\ NoCandidateHolds(r)) =>
            /\ NoMutation(r)
            /\ StoresUnchanged
            /\ Done(r) => (Resp(r).status = 404 /\ ~Resp(r).success)

\* C3 witness: a candidate key holds a value without metadata, and the
\* request ended not found.
C3_Witness ==
    \E r \in Reqs :
        /\ Done(r) /\ NoCandidateHolds(r)
        /\ \E i \in Events(r, "kv.get") : Lookup(trace[r][i].key) = "value"
        /\ Resp(r).status = 404

\* C4: on the messaging path the delete of the metadata key is issued only
\* after every outbound deleteMessage call of the request has completed: no
\* delete while a call is in flight, and a completion between each call and
\* the delete.
C4_RemoteCompletesBeforeMetadataDelete ==
    \A r \in Reqs :
        /\ pc[r] = "reply" => Events(r, "kv.delete") = {}
        /\ \A i \in Events(r, "kv.delete") :
               \A j \in Events(r, "tg.fetch") :
                   \E k \in Events(r, "tg.done") : j < k /\ k < i

\* C4 witness: a call was made, it came back with a negative ack, and the
\* metadata key was deleted after it.
C4_Witness ==
    \E r \in Reqs :
        /\ Done(r)
        /\ Events(r, "tg.fetch") # {}
        /\ ~outcome[r].threw /\ outcome[r].ok /\ outcome[r].body = "ok:false"
        /\ Events(r, "kv.delete") # {}

\* The order in which the Key Resolver is to probe the prefixes; the bare
\* identifier comes last.
ProbeOrder == <<"img:", "vid:", "aud:", "doc:", "r2:">>

ExpectedCandidate(id, i) == IF i <= Len(ProbeOrder) THEN <<ProbeOrder[i]>> \o id ELSE id

\* The identifier starts with none of the five known prefixes.
Bare(id) == \A i \in 1..Len(ProbeOrder) : ~StartsWith(id, ProbeOrder[i])

HeldRecord(key) == key \in StoreKeys /\ initial.entries[key] = "record"

\* The resolver of request r has returned.
Resolved(r) == pc[r] \notin {"off", "start", "probe"} /\ img_url.bound

\* C5: for an identifier without a known prefix the resolver probes img:,
\* vid:, aud:, doc:, r2: and the bare identifier in that order, probes nothing
\* after the first candidate that holds a record with metadata, and returns
\* that candidate: the first in the order that holds one.
C5_ProbeOrderFirstHitWins ==
    \A r \in Reqs :
        (pc[r] \notin {"off", "start"} /\ img_url.bound /\ Bare(fileId[r])) =>
            LET gets == Events(r, "kv.get")
                n == Cardinality(gets)
            IN  /\ gets = 1..n
                /\ n <= Len(ProbeOrder) + 1
                /\ \A i \in gets : trace[r][i].key = ExpectedCandidate(fileId[r], i)
                /\ \A i \in gets : trace[r][i].ok = HeldRecord(trace[r][i].key)
                /\ \A i \in gets : i < n => ~trace[r][i].ok
                /\ Resolved(r) =>
                       /\ record[r].found = (n > 0 /\ trace[r][n].ok)
                       /\ record[r].found => kvKey[r] = trace[r][n].key
                       /\ ~record[r].found => n = Len(ProbeOrder) + 1

\* C5 witness: records under vid: and r2: for the same name; the resolver
\* returned the vid: key after two probes.
C5_Witness ==
    \E r \in Reqs :
        /\ Resolved(r) /\ Bare(fileId[r]) /\ record[r].found
        /\ kvKey[r] = <<"vid:">> \o fileId[r]
        /\ HeldRecord(<<"r2:">> \o fileId[r])
        /\ Cardinality(Events(r, "kv.get")) = 2

\* The physical key the Object-Store Executor is to use: the record's r2Key
\* if not empty; else the Storage Key without "r2:" if it carries that prefix
\* and the rest is not empty; else the identifier without "r2:" if it carries
\* that prefix; else the identifier.
PhysicalKey(r) ==
    IF record[r].metadata.r2Key # <<>> THEN record[r].metadata.r2Key
    ELSE IF StartsWith(kvKey[r], "r2:") /\ Tail(kvKey[r]) # <<>> THEN Tail(kvKey[r])
    ELSE IF StartsWith(fileId[r], "r2:") THEN Tail(fileId[r])
    ELSE fileId[r]

\* C6: a request whose metadata-store binding is absent, or whose record is
\* object-store classified while the object-store binding is absent or the
\* physical key resolves to the empty string, issues no delete and no outbound
\* call, and ends with status 500 and success=false.
C6_PreconditionFaultBeforeMutation ==
    \A r \in Reqs :
        (/\ pc[r] # "off"
         /\ \/ ~img_url.bound
            \/ ObjectStore(r) /\ (~R2_BUCKET.bound \/ PhysicalKey(r) = <<>>)) =>
            /\ NoMutation(r)
            /\ StoresUnchanged
            /\ pc[r] \notin {"r2Delete", "r2KvDelete", "telegram", "fetch", "reply", "finally"}
            /\ Done(r) => (Resp(r).status = 500 /\ ~Resp(r).success)

\* C6 witness: the object-store binding is there, the physical key is empty,
\* and the request ended with 500.
C6_Witness ==
    \E r \in Reqs :
        /\ Done(r) /\ ObjectStore(r) /\ R2_BUCKET.bound /\ PhysicalKey(r) = <<>>
        /\ Resp(r).status = 500

PastR2Prepare(r) == ObjectStore(r) /\ pc[r] \in {"r2Delete", "r2KvDelete", "done"}

\* C8: the physical key is the first non-empty of the record's r2Key, the
\* Storage Key stripped of "r2:", the identifier stripped of "r2:", the raw
\* identifier; every object-store delete names it; and for identifier r2:a
\* with no r2Key it is a, the object a is deleted, then the metadata key r2:a,
\* and the response has success=true and names both keys.
C8_PhysicalKeyResolution ==
    \A r \in Reqs :
        /\ PastR2Prepare(r) => r2Key[r] = PhysicalKey(r)
        /\ ObjectStore(r) => \A i \in Events(r, "r2.delete") : trace[r][i].key = PhysicalKey(r)
        /\ (/\ PastR2Prepare(r)
            /\ fileId[r] = <<"r2:", "a">>
            /\ record[r].metadata.r2Key = <<>>) =>
               /\ r2Key[r] = <<"a">>
               /\ (Done(r) /\ \E i \in Events(r, "r2.delete") : trace[r][i].ok) =>
                      /\ trace[r] = << Event("kv.get", <<"r2:", "a">>, TRUE),
                                       Event("r2.delete", <<"a">>, TRUE),
                                       Event("kv.delete", <<"r2:", "a">>, TRUE) >>
                      /\ <<"a">> \notin R2_BUCKET.objects
                      /\ img_url.entries[<<"r2:", "a">>] = "absent"
                      /\ Resp(r).success
                      /\ Resp(r).r2Key = Some(<<"a">>)
                      /\ Resp(r).kvKey = Some(<<"r2:", "a">>)

\* C8 witness: identifier r2:a, no r2Key, and the request ended in success.
C8_Witness ==
    \E r \in Reqs :
        /\ Done(r) /\ fileId[r] = <<"r2:", "a">> /\ record[r].found
        /\ record[r].metadata.r2Key = <<>>
        /\ Resp(r).success
        /\ Len(trace[r]) = 3

\* C9: a found record goes to the object-store executor exactly when the
\* identifier starts with r2: or storageType or storage is r2, and to the
\* messaging executor otherwise; no request issues both an object-store delete
\* and a deleteMessage call.
C9_BackendClassification ==
    \A r \in Reqs :
        /\ pc[r] \in {"r2", "r2Delete", "r2KvDelete"} => ObjectStore(r)
        /\ pc[r] \in {"telegram", "fetch", "reply", "finally"} => Messaging(r)
        /\ Events(r, "r2.delete") # {} => ObjectStore(r)
        /\ Events(r, "tg.fetch") # {} => Messaging(r)
        /\ (Done(r) /\ Resp(r).r2Key # None) => ObjectStore(r)
        /\ (Done(r) /\ Resp(r).telegramDeleteAttempted # None) => Messaging(r)
        /\ (Done(r) /\ Messaging(r)) => Resp(r).telegramDeleteAttempted # None
        /\ ~(Events(r, "r2.delete") # {} /\ Events(r, "tg.fetch") # {})

\* C9 witness: only the legacy storage field says r2, and the request is on
\* the object-store path.
C9_Witness ==
    \E r \in Reqs :
        /\ pc[r] = "r2"
        /\ ~StartsWith(fileId[r], "r2:")
        /\ record[r].metadata.storageType # "r2"
        /\ record[r].metadata.storage = "r2"

\* A call of request r on a store was rejected.
StoreFault(r) == \E i \in Events(r, "r2.delete") : ~trace[r][i].ok

\* C10: a request returns at most one response, has returned exactly one
\* when it has ended, always can take its next step until then, and lets no
\* exception out; the status is 200 exactly when success=true, 404 exactly
\* when the resolver found no record with metadata, and 500 when a binding the
\* request needs is missing or a store call failed.
C10_OneResponsePerInvocation ==
    \A r \in Reqs :
        /\ ~escaped[r]
        /\ Len(response[r]) <= 1
        /\ Done(r) <=> Len(response[r]) = 1
        /\ pc[r] \notin {"off", "done"} => ENABLED Step(r)
        /\ Done(r) =>
               /\ Resp(r).status \in {200, 404, 500}
               /\ Resp(r).status = 200 <=> Resp(r).success
               /\ Resp(r).status = 404 <=> NoCandidateHolds(r)
               /\ (\/ ~img_url.bound
                   \/ ObjectStore(r) /\ ~R2_BUCKET.bound
                   \/ StoreFault(r)) => Resp(r).status = 500

\* C10 witness: the object-store delete was rejected and the request ended
\* with its one response, a 500 that carries the error.
C10_Witness ==
    \E r \in Reqs :
        /\ Done(r) /\ StoreFault(r)
        /\ Len(response[r]) = 1
        /\ Resp(r).status = 500
        /\ Resp(r).error = Some("R2 delete failed.")

\* C11: a messaging-classified record without a message reference: no
\* deleteMessage call is issued, and the request ends having deleted the
\* metadata key, with status 200, success=true, telegramDeleteAttempted=false
\* and telegramDeleted=false.
C11_NoMessageReferenceSkipsRemote ==
    \A r \in Reqs :
        (Messaging(r) /\ record[r].metadata.telegramMessageId = 0) =>
            /\ Events(r, "tg.fetch") = {}
            /\ pc[r] \notin {"fetch", "reply"}
            /\ Done(r) =>
                   /\ \E i \in Events(r, "kv.delete") : trace[r][i].key = kvKey[r]
                   /\ img_url.entries[kvKey[r]] = "absent"
                   /\ Resp(r).status = 200
                   /\ Resp(r).success
                   /\ Resp(r).telegramDeleteAttempted = Some(FALSE)
                   /\ Resp(r).telegramDeleted = Some("false")

\* C11 witness: credentials are set, the record has no message reference,
\* and the request ended without an outbound call.
C11_Witness ==
    \E r \in Reqs :
        /\ Done(r) /\ Messaging(r) /\ record[r].metadata.telegramMessageId = 0
        /\ TG_Bot_Token = Some(TRUE) /\ TG_Chat_ID = Some(TRUE)
        /\ Resp(r).telegramDeleteAttempted = Some(FALSE)
        /\ img_url.entries[kvKey[r]] = "absent"

\* The outbound call of request r has completed.
Replied(r) == Events(r, "tg.done") # {}

\* C12: a remote deletion counts as successful exactly when the call returned
\* an HTTP ok status and a body that parses to ok=true.  An ok status with
\* ok=false, with a body without an ok field, with a null body or with a body
\* that does not parse, a status that is not ok, and a call that throws, all
\* count as failure; and in none of these cases does an exception leave
\* deleteTelegramMessage (the caller's catch records none and the request does
\* not fail).
C12_RemoteSuccessNeedsStatusAndBody ==
    \A r \in Reqs :
        Replied(r) =>
            LET o == outcome[r]
            IN  /\ telegramDeleted[r] = "true" <=> (~o.threw /\ o.ok /\ o.body = "ok:true")
                /\ (~o.threw /\ o.ok /\ o.body = "ok:false") => telegramDeleted[r] = "false"
                /\ (~o.threw /\ o.ok /\ o.body \in {"{}", "null", "unparsable"}) =>
                       telegramDeleted[r] \in {"false", "undefined"}
                /\ (o.threw \/ ~o.ok) => telegramDeleted[r] = "false"
                /\ telegramDeleteError[r] = ""
                /\ ~escaped[r]
                /\ pc[r] \in {"finally", "done"}
                /\ Done(r) =>
                       /\ Resp(r).status = 200
                       /\ Resp(r).telegramDeleteError = Some("null")
                       /\ Resp(r).message = Some("Deleted from Telegram and KV.")
                              <=> (~o.threw /\ o.ok /\ o.body = "ok:true")

\* C12 witness: the remote answered with an ok status and a body that has no
\* ok field, and the deletion counts as failed.
C12_Witness ==
    \E r \in Reqs :
        /\ Done(r) /\ Replied(r)
        /\ ~outcome[r].threw /\ outcome[r].ok /\ outcome[r].body = "{}"
        /\ telegramDeleted[r] # "true"
        /\ Resp(r).warning # Some("")

\* The message of the error a throwing outbound call throws.
ThrownMessage == "fetch failed"

\* C13: when the outbound call throws, the response's telegramDeleteError is
\* not null and is the message of the error thrown.
C13_TransportErrorReported ==
    \A r \in Reqs :
        (Done(r) /\ Replied(r) /\ outcome[r].threw) =>
            /\ Resp(r).telegramDeleteError # None
            /\ Resp(r).telegramDeleteError # Some("null")
            /\ Resp(r).telegramDeleteError = Some(ThrownMessage)

\* C14: every delete on the metadata store names the Storage Key at which a
\* lookup of the same request returned a record with metadata, which is the
\* key the resolver returned; an identifier a found at img:a deletes img:a and
\* not a; and the delete is the last call the request issues on a store or
\* on the remote service.
C14_DeletesTheKeyItRead ==
    \A r \in Reqs :
        \A i \in Events(r, "kv.delete") :
            /\ trace[r][i].key = kvKey[r]
            /\ \E j \in Events(r, "kv.get") :
                   j < i /\ trace[r][j].ok /\ trace[r][j].key = trace[r][i].key
            /\ i = Len(trace[r])
            /\ Done(r)
            /\ (fileId[r] = <<"a">> /\ HeldRecord(<<"img:", "a">>)) =>
                   /\ trace[r][i].key = <<"img:", "a">>
                   /\ img_url.entries[<<"a">>] = initial.entries[<<"a">>]

\* C14 witness: records under img:a and under a; the request for a has
\* deleted img:a, and the record under a is still there.
C14_Witness ==
    \E r \in Reqs :
        /\ Done(r) /\ fileId[r] = <<"a">>
        /\ \E i \in Events(r, "kv.delete") : trace[r][i].key = <<"img:", "a">>
        /\ img_url.entries[<<"img:", "a">>] = "absent"
        /\ img_url.entries[<<"a">>] = "record"

\* C15: for an identifier that starts with one of the known prefixes the
\* resolver issues exactly one lookup, on the identifier as it is, and probes
\* no other key; a record held under any other key, the identifier without
\* its prefix included, is not found and the request ends with 404.
C15_PrefixedIdentifierLooksUpItself ==
    \A r \in Reqs :
        (pc[r] \notin {"off", "start"} /\ img_url.bound /\ ~Bare(fileId[r])) =>
            LET gets == Events(r, "kv.get")
            IN  /\ Cardinality(gets) <= 1
                /\ \A i \in gets : trace[r][i].key = fileId[r]
                /\ candidateKeys[r] = <<fileId[r]>>
                /\ Resolved(r) =>
                       /\ Cardinality(gets) = 1
                       /\ record[r].found = HeldRecord(fileId[r])
                       /\ kvKey[r] = fileId[r]
                /\ (Done(r) /\ ~HeldRecord(fileId[r])) =>
                       /\ Resp(r).status = 404
                       /\ NoMutation(r)

\* C15 witness: the identifier is img:a, a record is held under a and none
\* under img:a; the request ended with 404 after one lookup.
C15_Witness ==
    \E r \in Reqs :
        /\ Done(r) /\ fileId[r] = <<"img:", "a">>
        /\ HeldRecord(<<"a">>) /\ ~HeldRecord(<<"img:", "a">>)
        /\ Cardinality(Events(r, "kv.get")) = 1
        /\ Resp(r).status = 404

\* C16: every delete of a metadata key that carries the r2: prefix comes
\* after a successful object-store delete of the physical key in the same
\* request, also when the record was reached from a bare identifier through
\* the r2: candidate and neither storageType nor storage is set.
C16_ObjectStoreKeyNeedsPayloadDelete ==
    \A r \in Reqs :
        \A i \in Events(r, "kv.delete") :
            StartsWith(trace[r][i].key, "r2:") =>
                \E j \in Events(r, "r2.delete") :
                    j < i /\ trace[r][j].ok /\ trace[r][j].key = PhysicalKey(r)

\* C18: a messaging-classified record with a message reference, and the bot
\* token or the chat id not set: no outbound call is issued, and the request
\* ends having deleted the metadata key, with status 200, success=true,
\* telegramDeleteAttempted=true and telegramDeleted=false.
C18_MissingCredentialsSkipRemote ==
    \A r \in Reqs :
        (/\ Messaging(r)
         /\ record[r].metadata.telegramMessageId # 0
         /\ TG_Bot_Token = Some(FALSE) \/ TG_Chat_ID = Some(FALSE)) =>
            /\ Events(r, "tg.fetch") = {}
            /\ pc[r] \notin {"fetch", "reply"}
            /\ chat = initial.chat
            /\ Done(r) =>
                   /\ \E i \in Events(r, "kv.delete") : trace[r][i].key = kvKey[r]
                   /\ img_url.entries[kvKey[r]] = "absent"
                   /\ Resp(r).status = 200
                   /\ Resp(r).success
                   /\ Resp(r).error = None
                   /\ Resp(r).telegramDeleteAttempted = Some(TRUE)
                   /\ Resp(r).telegramDeleted = Some("false")

\* C18 witness: the bot token is set and the chat id is not; the record has
\* a message reference, and the request ended with 200 and no outbound call.
C18_Witness ==
    \E r \in Reqs :
        /\ Done(r) /\ Messaging(r) /\ record[r].metadata.telegramMessageId # 0
        /\ TG_Bot_Token = Some(TRUE) /\ TG_Chat_ID = Some(FALSE)
        /\ Events(r, "tg.fetch") = {}
        /\ Resp(r).status = 200
        /\ Resp(r).telegramDeleteAttempted = Some(TRUE)

\* The keys the resolver is to probe for identifier id, in order.
ExpectedCandidates(id) ==
    IF Bare(id) THEN [i \in 1..(Len(ProbeOrder) + 1) |-> ExpectedCandidate(id, i)] ELSE <<id>>

\* The first of them that held a record when the requests arrived.
FirstHeld(id) ==
    LET c == ExpectedCandidates(id)
        i == CHOOSE i \in 1..Len(c) : HeldRecord(c[i]) /\ \A j \in 1..(i - 1) : ~HeldRecord(c[j])
    IN  c[i]

\* The identifier of the two requests is messaging-backed: it does not carry
\* the r2: prefix, one of its candidates held a record when the requests
\* arrived, and no record the requests have read is object-store classified.
MessagingBacked(id) ==
    /\ img_url.bound
    /\ ~StartsWith(id, "r2:")
    /\ \E i \in 1..Len(ExpectedCandidates(id)) : HeldRecord(ExpectedCandidates(id)[i])
    /\ \A k \in DOMAIN kvMetadata :
           kvMetadata[k].storageType # "r2" /\ kvMetadata[k].storage # "r2"

\* C17: two concurrent requests for the same messaging-backed identifier,
\* under every interleaving of their awaits: each ends with status 200 or
\* 404 and lets no exception out; once both have ended at least one has
\* ended with 200, the record the identifier resolved to is absent from the
\* metadata store, and so is every record a request found.
C17_ConcurrentDeletesConverge ==
    LET id == DecodedFileId(param[1])
    IN  (param[1] = param[2] /\ MessagingBacked(id)) =>
            /\ \A r \in Reqs : ~escaped[r]
            /\ \A r \in Reqs : Done(r) => Resp(r).status \in {200, 404}
            /\ \A r \in Reqs : (Done(r) /\ Resp(r).status = 404) => ~record[r].found
            /\ (\A r \in Reqs : Done(r)) =>
                   /\ \E r \in Reqs : Resp(r).status = 200
                   /\ img_url.entries[FirstHeld(id)] = "absent"
                   /\ \A r \in Reqs : record[r].found => img_url.entries[kvKey[r]] = "absent"

\* C17 witness: both requests found the record before either deleted it,
\* both deleted its key, and both ended with 200.
C17_Witness ==
    /\ \A r \in Reqs : Done(r) /\ Resp(r).status = 200 /\ Events(r, "kv.delete") # {}
    /\ MessagingBacked(fileId[1])
    /\ kvKey[1] = kvKey[2]
    /\ trace[1][Len(trace[1])].key = trace[2][Len(trace[2])].key
    /\ img_url.entries[kvKey[1]] = "absent"

\* The identifier of request r: its path parameter percent-decoded, or as it
\* arrived when decodeURIComponent rejects it.
Identifier(r) == IF Malformed(param[r]) THEN param[r] ELSE DecodeURIComponent(param[r])

\* C19: the identifier is the percent-decoded path parameter when decoding
\* succeeds and the raw one when it fails; the resolver probes the candidates
\* of that identifier, the classifier looks at its prefix, and the response
\* echoes it as fileId.  A parameter that does not decode lets no exception
\* out and ends as the raw identifier makes it end: 404 exactly when none of
\* its candidates holds a record, 200 unless a binding is missing, the
\* physical key is empty or a store call failed.
C19_IdentifierDecodedOrRaw ==
    \A r \in Reqs :
        pc[r] \notin {"off", "start"} =>
            LET id == Identifier(r)
                c == ExpectedCandidates(id)
                gets == Events(r, "kv.get")
                byRule == \/ StartsWith(id, "r2:")
                          \/ record[r].metadata.storageType = "r2"
                          \/ record[r].metadata.storage = "r2"
            IN  /\ fileId[r] = id
                /\ ~escaped[r]
                /\ \A i \in gets : i <= Len(c) /\ trace[r][i].key = c[i]
                /\ pc[r] \in {"r2", "r2Delete", "r2KvDelete"} => byRule
                /\ pc[r] \in {"telegram", "fetch", "reply", "finally"} => ~byRule
                /\ (Done(r) /\ Resp(r).r2Key # None) => byRule
                /\ (Done(r) /\ Resp(r).telegramDeleteAttempted # None) => ~byRule
                /\ (Done(r) /\ Resp(r).success) => Resp(r).fileId = Some(id)
                /\ (Done(r) /\ img_url.bound) =>
                       /\ Resp(r).status = 404
                              <=> \A i \in 1..Len(c) : ~HeldRecord(c[i])
                       /\ Resp(r).status = 500 =>
                              /\ ObjectStore(r)
                              /\ ~R2_BUCKET.bound \/ PhysicalKey(r) = <<>> \/ StoreFault(r)
                /\ (Done(r) /\ ~Malformed(param[r]) /\ Resp(r).kvKey # None) =>
                       \A i \in 1..Len(Resp(r).kvKey[1]) : Resp(r).kvKey[1][i] # "%61"

\* C19 witness: the parameter is an escape cut short, a record is held under
\* img: followed by the parameter as it arrived, and the request ended with
\* 200 and echoes the raw parameter.
C19_Witness ==
    \E r \in Reqs :
        /\ Done(r) /\ param[r] = <<"%">>
        /\ HeldRecord(<<"img:", "%">>)
        /\ Resp(r).status = 200
        /\ Resp(r).fileId = Some(<<"%">>)
        /\ Resp(r).kvKey = Some(<<"img:", "%">>)

====
